---- MODULE Spec2Model ----
(***************************************************************************)
(* Model of 0x02-redis_basic/exercise.py: the Cache class (store, get,     *)
(* get_str, get_int), the decorators count_calls and call_history that     *)
(* instrument Cache.store, and the replay utility, over a Redis database.  *)
(*                                                                         *)
(* Text is a sequence of Unicode code points, bytes are a sequence of      *)
(* integers 0..255.  The Redis database is the record db: the string keys  *)
(* named by generated identifiers (vals), the counter keys (counter) and   *)
(* the two history lists of every method name (inputs, outputs).  Every    *)
(* Redis command is one atomic step; a store or replay call is a sequence  *)
(* of such steps of one caller, so calls of different callers interleave.  *)
(***************************************************************************)
EXTENDS Integers, Sequences, FiniteSets, TLC

\* The number of store calls a behaviour starts, and the number of callers.
MaxCalls == 2

Procs == 1..MaxCalls
Ids == 1..MaxCalls

\* Python's None, as returned by Redis.get for an absent key.
Nil == <<-1>>

----------------------------------------------------------------------------
(* Text and bytes: str(), repr(), str.encode, bytes.decode, int()          *)

RECURSIVE Digits(_)
\* The decimal digits of n >= 0, as code points.
Digits(n) == IF n < 10 THEN <<48 + n>> ELSE Digits(n \div 10) \o <<48 + (n % 10)>>

\* str(n) and repr(n) of a Python int.
IntStr(n) == IF n < 0 THEN <<45>> \o Digits(-n) ELSE Digits(n)

\* repr(x) of the Python float x = k / 10.
FloatRepr(k) ==
    LET a == IF k < 0 THEN -k ELSE k
    IN  (IF k < 0 THEN <<45>> ELSE <<>>) \o Digits(a \div 10) \o <<46, 48 + (a % 10)>>

HexDigit(d) == IF d < 10 THEN 48 + d ELSE 87 + d

\* The escape \xhh of repr(), as code points.
HexEscape(c) == <<92, 120, HexDigit(c \div 16), HexDigit(c % 16)>>

Contains(s, c) == \E i \in 1..Len(s) : s[i] = c

\* The quote repr() encloses s in: " when s holds ' and no ", else '.
QuoteOf(s) == IF Contains(s, 39) /\ ~Contains(s, 34) THEN 34 ELSE 39

\* repr() of one character of a str (code point below 256), inside quote q.
ReprChar(c, q) ==
    IF c = q \/ c = 92 THEN <<92, c>>
    ELSE IF c = 9 THEN <<92, 116>>
    ELSE IF c = 10 THEN <<92, 110>>
    ELSE IF c = 13 THEN <<92, 114>>
    ELSE IF c < 32 \/ (c >= 127 /\ c <= 160) \/ c = 173 THEN HexEscape(c)
    ELSE <<c>>

\* repr() of one byte of a bytes object, inside quote q.
ReprByte(c, q) ==
    IF c = q \/ c = 92 THEN <<92, c>>
    ELSE IF c = 9 THEN <<92, 116>>
    ELSE IF c = 10 THEN <<92, 110>>
    ELSE IF c = 13 THEN <<92, 114>>
    ELSE IF c < 32 \/ c >= 127 THEN HexEscape(c)
    ELSE <<c>>

RECURSIVE ReprChars(_, _)
ReprChars(s, q) == IF s = <<>> THEN <<>> ELSE ReprChar(Head(s), q) \o ReprChars(Tail(s), q)

RECURSIVE ReprBytes(_, _)
ReprBytes(s, q) == IF s = <<>> THEN <<>> ELSE ReprByte(Head(s), q) \o ReprBytes(Tail(s), q)

\* repr(s) of a Python str.
StrRepr(s) == <<QuoteOf(s)>> \o ReprChars(s, QuoteOf(s)) \o <<QuoteOf(s)>>

\* repr(b) and str(b) of a Python bytes object.
BytesRepr(b) == <<98, QuoteOf(b)>> \o ReprBytes(b, QuoteOf(b)) \o <<QuoteOf(b)>>

\* str.encode('utf-8') of one code point (not a surrogate).
EncodeChar(c) ==
    IF c < 128 THEN <<c>>
    ELSE IF c < 2048 THEN <<192 + (c \div 64), 128 + (c % 64)>>
    ELSE IF c < 65536 THEN <<224 + (c \div 4096), 128 + ((c \div 64) % 64), 128 + (c % 64)>>
    ELSE <<240 + (c \div 262144), 128 + ((c \div 4096) % 64),
           128 + ((c \div 64) % 64), 128 + (c % 64)>>

RECURSIVE UTF8Encode(_)
UTF8Encode(s) == IF s = <<>> THEN <<>> ELSE EncodeChar(Head(s)) \o UTF8Encode(Tail(s))

IsCont(b, i) == i <= Len(b) /\ b[i] >= 128 /\ b[i] <= 191

\* The number of bytes of the well-formed UTF-8 sequence that starts b, 0 if none.
SeqLen(b) ==
    LET c == b[1]
    IN  IF c < 128 THEN 1
        ELSE IF c >= 194 /\ c <= 223 /\ IsCont(b, 2) THEN 2
        ELSE IF c >= 224 /\ c <= 239 /\ IsCont(b, 2) /\ IsCont(b, 3)
                /\ (c = 224 => b[2] >= 160) /\ (c = 237 => b[2] <= 159) THEN 3
        ELSE IF c >= 240 /\ c <= 244 /\ IsCont(b, 2) /\ IsCont(b, 3) /\ IsCont(b, 4)
                /\ (c = 240 => b[2] >= 144) /\ (c = 244 => b[2] <= 143) THEN 4
        ELSE 0

\* The code point of the well-formed sequence of n bytes that starts b.
CodePoint(b, n) ==
    IF n = 1 THEN b[1]
    ELSE IF n = 2 THEN (b[1] - 192) * 64 + (b[2] - 128)
    ELSE IF n = 3 THEN (b[1] - 224) * 4096 + (b[2] - 128) * 64 + (b[3] - 128)
    ELSE (b[1] - 240) * 262144 + (b[2] - 128) * 4096 + (b[3] - 128) * 64 + (b[4] - 128)

RECURSIVE UTF8Valid(_)
\* bytes.decode('utf-8') succeeds (strict error handling).
UTF8Valid(b) ==
    IF b = <<>> THEN TRUE
    ELSE SeqLen(b) # 0 /\ UTF8Valid(SubSeq(b, SeqLen(b) + 1, Len(b)))

RECURSIVE UTF8Decode(_)
\* bytes.decode('utf-8') of valid UTF-8.
UTF8Decode(b) ==
    IF b = <<>> THEN <<>>
    ELSE <<CodePoint(b, SeqLen(b))>> \o UTF8Decode(SubSeq(b, SeqLen(b) + 1, Len(b)))

IsSpace(c) == c = 32 \/ (c >= 9 /\ c <= 13)
IsDigit(c) == c >= 48 /\ c <= 57

RECURSIVE LStrip(_)
LStrip(b) == IF b # <<>> /\ IsSpace(Head(b)) THEN LStrip(Tail(b)) ELSE b

RECURSIVE RStrip(_)
RStrip(b) == IF b # <<>> /\ IsSpace(b[Len(b)]) THEN RStrip(SubSeq(b, 1, Len(b) - 1)) ELSE b

\* The literal after int() stripped the whitespace and took the sign off.
Unsigned(b) ==
    LET s == RStrip(LStrip(b))
    IN  IF s # <<>> /\ (s[1] = 45 \/ s[1] = 43) THEN Tail(s) ELSE s

IsNegative(b) == LET s == LStrip(b) IN s # <<>> /\ s[1] = 45

\* A base-10 literal: digits, with single underscores between digits only.
DigitsValid(d) ==
    /\ d # <<>>
    /\ \A i \in 1..Len(d) :
          \/ IsDigit(d[i])
          \/ d[i] = 95 /\ i > 1 /\ i < Len(d) /\ IsDigit(d[i - 1]) /\ IsDigit(d[i + 1])

RECURSIVE DigitsValue(_)
DigitsValue(d) ==
    IF d = <<>> THEN 0
    ELSE IF d[Len(d)] = 95 THEN DigitsValue(SubSeq(d, 1, Len(d) - 1))
    ELSE 10 * DigitsValue(SubSeq(d, 1, Len(d) - 1)) + (d[Len(d)] - 48)

\* int(b) of a bytes object b succeeds.
IntValid(b) == DigitsValid(Unsigned(b))

\* int(b) of a bytes object b that holds a base-10 literal.
IntParse(b) == IF IsNegative(b) THEN -DigitsValue(Unsigned(b)) ELSE DigitsValue(Unsigned(b))

----------------------------------------------------------------------------
(* Python values                                                           *)

PyStr(s) == [t |-> "str", v |-> s]
PyBytes(b) == [t |-> "bytes", v |-> b]
PyInt(n) == [t |-> "int", v |-> n]
\* The float k / 10.
PyFloat(k) == [t |-> "float", v |-> k]
PyNone == [t |-> "none", v |-> <<>>]
\* A raised exception, by its type name.
PyErr(e) == [t |-> "error", v |-> e]

\* The arguments store is called with: 'f' + chr(233), -12, b'\xff', 1.5, and
\* None, which is no Union[str, bytes, int, float].
Scalars ==
    { PyStr(<<102, 233>>), PyInt(-12), PyBytes(<<255>>), PyFloat(15), PyNone }

\* The values Redis.set accepts; it raises DataError for any other.
Encodable(x) == x.t \in {"str", "bytes", "int", "float"}

\* A variant of Encode that encodes text as Latin-1, one byte per character.
EncodeLatin1(x) ==
    IF x.t = "bytes" THEN x.v
    ELSE IF x.t = "int" THEN IntStr(x.v)
    ELSE IF x.t = "float" THEN FloatRepr(x.v)
    ELSE x.v

\* The bytes Redis sends for a value: bytes as they are, a number by its
\* repr(), text and the repr() of a number encoded as UTF-8.
Encode(x) ==
    IF x.t = "bytes" THEN x.v
    ELSE IF x.t = "int" THEN UTF8Encode(IntStr(x.v))
    ELSE IF x.t = "float" THEN UTF8Encode(FloatRepr(x.v))
    ELSE UTF8Encode(x.v)

\* repr(x)
Repr(x) ==
    IF x.t = "str" THEN StrRepr(x.v)
    ELSE IF x.t = "bytes" THEN BytesRepr(x.v)
    ELSE IF x.t = "int" THEN IntStr(x.v)
    ELSE IF x.t = "float" THEN FloatRepr(x.v)
    ELSE <<78, 111, 110, 101>>

\* str(args) of the positional arguments (x,) of a store call.
StrArgs(x) == <<40>> \o Repr(x) \o <<44, 41>>

\* str(uuid4()) of the n-th identifier generated: a text no earlier call got.
IdText(n) == <<117>> \o Digits(n)

\* method.__qualname__ of the bound methods replay is given, as text.
Methods == {"Cache.store", "Cache.get"}
NameText(m) ==
    IF m = "Cache.store" THEN <<67, 97, 99, 104, 101, 46, 115, 116, 111, 114, 101>>
    ELSE <<67, 97, 99, 104, 101, 46, 103, 101, 116>>

----------------------------------------------------------------------------
(* The Redis commands, on a database d                                     *)

\* FLUSHDB: no key exists.
EmptyDb ==
    [ vals |-> [i \in Ids |-> Nil],
      counter |-> [m \in Methods |-> Nil],
      inputs |-> [m \in Methods |-> <<>>],
      outputs |-> [m \in Methods |-> <<>>] ]

\* A variant of Incr that loses the earlier count (SET name 1).
IncrLost(d, m) == [d EXCEPT !.counter[m] = UTF8Encode(IntStr(1))]

\* INCR name: an absent key counts as 0; the value is kept as a decimal string.
Incr(d, m) ==
    [d EXCEPT !.counter[m] =
        IF @ = Nil THEN UTF8Encode(IntStr(1)) ELSE UTF8Encode(IntStr(IntParse(@) + 1))]

\* SET key value, for the key IdText(i).
Set(d, i, b) == [d EXCEPT !.vals[i] = b]

\* GET key, for the key IdText(i): the bytes, or None.
Get(d, i) == d.vals[i]

\* A variant of RpushInputs that pushes at the head of the list (LPUSH).
LpushInputs(d, m, b) == [d EXCEPT !.inputs[m] = <<b>> \o @]

\* RPUSH name:inputs value
RpushInputs(d, m, b) == [d EXCEPT !.inputs[m] = Append(@, b)]

\* RPUSH name:outputs value
RpushOutputs(d, m, b) == [d EXCEPT !.outputs[m] = Append(@, b)]

\* A variant of Exists that never finds the key.
ExistsNever(d, m) == 0

\* EXISTS name
Exists(d, m) == IF d.counter[m] = Nil THEN 0 ELSE 1

----------------------------------------------------------------------------
(* State                                                                   *)

VARIABLES
    db,      \* the Redis database of self._redis
    pc,      \* pc[p]: the command caller p's current call does next, or "idle"
    cur,     \* cur[p]: the store invocation caller p is in (an index of calls), or 0
    calls,   \* the store invocations in the order they began: the argument data,
             \* the number of data_key (0 before uuid4()), and how the call stands
    inBy,    \* inBy[i]: the invocation that pushed the i-th entry of Cache.store:inputs
    outBy,   \* outBy[i]: the invocation that pushed the i-th entry of Cache.store:outputs
    overlap, \* a store call began while another store call was in progress
    rfn,     \* rfn[p]: fn.__qualname__ in caller p's replay call
    rins,    \* rins[p]: fxn_inputs in caller p's replay call
    routs,   \* routs[p]: fxn_outputs in caller p's replay call
    ret,     \* ret[p]: the operation caller p completed last and what it returned or raised
    out      \* out[p]: the lines caller p's last operation printed

vars == <<db, pc, cur, calls, inBy, outBy, overlap, rfn, rins, routs, ret, out>>

StorePcs == {"store_set", "store_rpush_in", "store_rpush_out"}

NoRet == [op |-> "none", key |-> 0, res |-> PyNone]

Init ==
    /\ db = EmptyDb
    /\ pc = [p \in Procs |-> "idle"]
    /\ cur = [p \in Procs |-> 0]
    /\ calls = <<>>
    /\ inBy = <<>>
    /\ outBy = <<>>
    /\ overlap = FALSE
    /\ rfn = [p \in Procs |-> "Cache.store"]
    /\ rins = [p \in Procs |-> <<>>]
    /\ routs = [p \in Procs |-> <<>>]
    /\ ret = [p \in Procs |-> NoRet]
    /\ out = [p \in Procs |-> <<>>]

\* A caller begins an operation: nothing of its last one is left.
Begin(p) ==
    /\ rins' = [rins EXCEPT ![p] = <<>>]
    /\ routs' = [routs EXCEPT ![p] = <<>>]
    /\ out' = [out EXCEPT ![p] = <<>>]

----------------------------------------------------------------------------
(* Cache.store, as decorated: count_calls(call_history(store))             *)

\* count_calls.invoker: INCR of the counter, then the wrapped method is called.
\* self._redis is the Redis that __init__ bound, so the isinstance tests of
\* both invokers hold.  The argument is passed by position: args = (x,).
StoreIncr(p, x) ==
    /\ pc[p] = "idle"
    /\ Len(calls) < MaxCalls
    /\ db' = Incr(db, "Cache.store")
    /\ calls' = Append(calls, [arg |-> x, id |-> 0, st |-> "running"])
    /\ cur' = [cur EXCEPT ![p] = Len(calls) + 1]
    /\ overlap' = (overlap \/ \E q \in Procs : pc[q] \in StorePcs)
    /\ pc' = [pc EXCEPT ![p] = "store_set"]
    /\ ret' = [ret EXCEPT ![p] = NoRet]
    /\ Begin(p)
    /\ UNCHANGED <<inBy, outBy, rfn>>

\* The number of identifiers uuid4() has generated.
Generated == Cardinality({k \in 1..Len(calls) : calls[k].id # 0})

\* Cache.store: data_key = str(uuid4()), then SET data_key data.
StoreSet(p) ==
    /\ pc[p] = "store_set"
    /\ Encodable(calls[cur[p]].arg)
    /\ LET i == Generated + 1
       IN  /\ db' = Set(db, i, Encode(calls[cur[p]].arg))
           /\ calls' = [calls EXCEPT ![cur[p]].id = i]
    /\ pc' = [pc EXCEPT ![p] = "store_rpush_in"]
    /\ UNCHANGED <<cur, inBy, outBy, overlap, rfn, rins, routs, ret, out>>

\* A variant of StoreSetFail in which the error of SET is swallowed and the
\* call goes on with the identifier it generated.
StoreSetFailSwallowed(p) ==
    /\ pc[p] = "store_set"
    /\ calls' = [calls EXCEPT ![cur[p]].id = Generated + 1]
    /\ pc' = [pc EXCEPT ![p] = "store_rpush_in"]
    /\ UNCHANGED <<db, cur, inBy, outBy, overlap, rfn, rins, routs, ret, out>>

\* Cache.store: SET raises (DataError for a value that is no scalar, else a
\* ConnectionError); neither invoker catches it, so the call ends here.
StoreSetFail(p) ==
    /\ pc[p] = "store_set"
    /\ calls' = [calls EXCEPT ![cur[p]].st = "failed"]
    /\ ret' = [ret EXCEPT ![p] =
                  [op |-> "store", key |-> 0,
                   res |-> IF Encodable(calls[cur[p]].arg) THEN PyErr("ConnectionError")
                           ELSE PyErr("DataError")]]
    /\ pc' = [pc EXCEPT ![p] = "idle"]
    /\ cur' = [cur EXCEPT ![p] = 0]
    /\ UNCHANGED <<db, inBy, outBy, overlap, rfn, rins, routs, out>>

\* call_history.invoker, after method returned: RPUSH inputs str(args).
StoreRpushIn(p) ==
    /\ pc[p] = "store_rpush_in"
    /\ db' = RpushInputs(db, "Cache.store", UTF8Encode(StrArgs(calls[cur[p]].arg)))
    /\ inBy' = Append(inBy, cur[p])
    /\ pc' = [pc EXCEPT ![p] = "store_rpush_out"]
    /\ UNCHANGED <<cur, calls, outBy, overlap, rfn, rins, routs, ret, out>>

\* call_history.invoker: RPUSH outputs output, and output is returned.
StoreRpushOut(p) ==
    /\ pc[p] = "store_rpush_out"
    /\ db' = RpushOutputs(db, "Cache.store", UTF8Encode(IdText(calls[cur[p]].id)))
    /\ outBy' = Append(outBy, cur[p])
    /\ calls' = [calls EXCEPT ![cur[p]].st = "ok"]
    /\ ret' = [ret EXCEPT ![p] =
                  [op |-> "store", key |-> calls[cur[p]].id,
                   res |-> PyStr(IdText(calls[cur[p]].id))]]
    /\ pc' = [pc EXCEPT ![p] = "idle"]
    /\ cur' = [cur EXCEPT ![p] = 0]
    /\ UNCHANGED <<inBy, overlap, rfn, rins, routs, out>>

----------------------------------------------------------------------------
(* Cache.get, get_str, get_int                                             *)

\* A variant of Convert that takes an absent key for an empty value.
ConvertAbsentAsEmpty(data, fn) ==
    LET b == IF data = Nil THEN <<>> ELSE data
    IN  IF fn = "get" THEN PyBytes(b)
        ELSE IF fn = "get_str"
             THEN (IF UTF8Valid(b) THEN PyStr(UTF8Decode(b)) ELSE PyErr("UnicodeDecodeError"))
        ELSE (IF IntValid(b) THEN PyInt(IntParse(b)) ELSE PyErr("ValueError"))

\* fn(data) if fn else data, for fn of get (none), get_str and get_int.
Convert(data, fn) ==
    IF fn = "get" THEN (IF data = Nil THEN PyNone ELSE PyBytes(data))
    ELSE IF fn = "get_str"
         THEN (IF data = Nil THEN PyErr("AttributeError")
               ELSE IF UTF8Valid(data) THEN PyStr(UTF8Decode(data))
               ELSE PyErr("UnicodeDecodeError"))
    ELSE (IF data = Nil THEN PyErr("TypeError")
          ELSE IF IntValid(data) THEN PyInt(IntParse(data))
          ELSE PyErr("ValueError"))

\* What get(key, fn) of the key IdText(i) returns or raises on database d.
CacheGet(d, i, fn) == Convert(Get(d, i), fn)

\* A variant of ReadOp in which get is counted as store is (@count_calls).
ReadOpCounted(p, i, fn) ==
    /\ pc[p] = "idle"
    /\ db' = Incr(db, "Cache.get")
    /\ ret' = [ret EXCEPT ![p] = [op |-> fn, key |-> i, res |-> CacheGet(db, i, fn)]]
    /\ Begin(p)
    /\ UNCHANGED <<pc, cur, calls, inBy, outBy, overlap, rfn>>

\* get(key, fn): GET key, then the conversion; the result is returned or the
\* error raised.
ReadOp(p, i, fn) ==
    /\ pc[p] = "idle"
    /\ ret' = [ret EXCEPT ![p] = [op |-> fn, key |-> i, res |-> CacheGet(db, i, fn)]]
    /\ Begin(p)
    /\ UNCHANGED <<db, pc, cur, calls, inBy, outBy, overlap, rfn>>

get(p, i) == ReadOp(p, i, "get")
get_str(p, i) == ReadOp(p, i, "get_str")
get_int(p, i) == ReadOp(p, i, "get_int")

----------------------------------------------------------------------------
(* replay                                                                  *)

Min(a, b) == IF a < b THEN a ELSE b

\* A variant of Zip that pairs the inputs with the outputs in reverse order.
ZipReversed(ins, outs) ==
    [i \in 1..Min(Len(ins), Len(outs)) |-> <<ins[i], outs[Min(Len(ins), Len(outs)) + 1 - i]>>]

\* zip(fxn_inputs, fxn_outputs): pairs by position, up to the shorter length.
Zip(ins, outs) == [i \in 1..Min(Len(ins), Len(outs)) |-> <<ins[i], outs[i]>>]

\* '{} was called {} times:'.format(fxn_name, fxn_call_count)
HeaderLine(m, n) ==
    NameText(m) \o <<32, 119, 97, 115, 32, 99, 97, 108, 108, 101, 100, 32>>
                \o IntStr(n) \o <<32, 116, 105, 109, 101, 115, 58>>

\* '{}(*{}) -> {}'.format(fxn_name, fxn_input.decode("utf-8"), fxn_output)
PairLine(m, input, output) ==
    NameText(m) \o <<40, 42>> \o UTF8Decode(input) \o <<41, 32, 45, 62, 32>>
                \o BytesRepr(output)

\* The lines the loop over zip(fxn_inputs, fxn_outputs) prints.
PairLines(m, ins, outs) ==
    [i \in 1..Len(Zip(ins, outs)) |-> PairLine(m, Zip(ins, outs)[i][1], Zip(ins, outs)[i][2])]

\* fn is None or no bound method: replay returns at once.
ReplayNoop(p) ==
    /\ pc[p] = "idle"
    /\ ret' = [ret EXCEPT ![p] = [op |-> "replay", key |-> 0, res |-> PyNone]]
    /\ Begin(p)
    /\ UNCHANGED <<db, pc, cur, calls, inBy, outBy, overlap, rfn>>

\* fn is the bound method m of a Cache: EXISTS of the counter key; when it is
\* absent the count is 0 and the header is printed.
ReplayExists(p, m) ==
    /\ pc[p] = "idle"
    /\ rfn' = [rfn EXCEPT ![p] = m]
    /\ rins' = [rins EXCEPT ![p] = <<>>]
    /\ routs' = [routs EXCEPT ![p] = <<>>]
    /\ ret' = [ret EXCEPT ![p] = NoRet]
    /\ IF Exists(db, m) # 0
       THEN /\ pc' = [pc EXCEPT ![p] = "replay_get"]
            /\ out' = [out EXCEPT ![p] = <<>>]
       ELSE /\ pc' = [pc EXCEPT ![p] = "replay_lrange_in"]
            /\ out' = [out EXCEPT ![p] = <<HeaderLine(m, 0)>>]
    /\ UNCHANGED <<db, cur, calls, inBy, outBy, overlap>>

\* fxn_call_count = int(redis_store.get(fxn_name)), and the header is printed;
\* int(None) raises TypeError when the key is gone since EXISTS.
ReplayGet(p) ==
    /\ pc[p] = "replay_get"
    /\ IF db.counter[rfn[p]] = Nil
       THEN /\ pc' = [pc EXCEPT ![p] = "idle"]
            /\ ret' = [ret EXCEPT ![p] = [op |-> "replay", key |-> 0, res |-> PyErr("TypeError")]]
            /\ out' = out
       ELSE /\ pc' = [pc EXCEPT ![p] = "replay_lrange_in"]
            /\ ret' = ret
            /\ out' = [out EXCEPT ![p] = <<HeaderLine(rfn[p], IntParse(db.counter[rfn[p]]))>>]
    /\ UNCHANGED <<db, cur, calls, inBy, outBy, overlap, rfn, rins, routs>>

\* fxn_inputs = LRANGE name:inputs 0 -1
ReplayLrangeIn(p) ==
    /\ pc[p] = "replay_lrange_in"
    /\ rins' = [rins EXCEPT ![p] = db.inputs[rfn[p]]]
    /\ pc' = [pc EXCEPT ![p] = "replay_lrange_out"]
    /\ UNCHANGED <<db, cur, calls, inBy, outBy, overlap, rfn, routs, ret, out>>

\* fxn_outputs = LRANGE name:outputs 0 -1, and one line is printed per pair.
\* Every input is the UTF-8 encoding of a str(args), so decode succeeds.
ReplayLrangeOut(p) ==
    /\ pc[p] = "replay_lrange_out"
    /\ routs' = [routs EXCEPT ![p] = db.outputs[rfn[p]]]
    /\ out' = [out EXCEPT ![p] = @ \o PairLines(rfn[p], rins[p], db.outputs[rfn[p]])]
    /\ ret' = [ret EXCEPT ![p] = [op |-> "replay", key |-> 0, res |-> PyNone]]
    /\ pc' = [pc EXCEPT ![p] = "idle"]
    /\ UNCHANGED <<db, cur, calls, inBy, outBy, overlap, rfn, rins>>

----------------------------------------------------------------------------
(* Cache.__init__                                                          *)

\* A variant of FlushDb that deletes the string keys and keeps the lists.
FlushStringsOnly(d) ==
    [d EXCEPT !.vals = [i \in Ids |-> Nil], !.counter = [m \in Methods |-> Nil]]

\* FLUSHDB, synchronous: every key of the database is deleted.
FlushDb(d) == EmptyDb

\* Cache(): self._redis = Redis() connects to the same database as every
\* other Cache, and flushdb(True) empties it.  Calls in progress on an older
\* Cache go on with their next command.
CacheInit(p) ==
    /\ pc[p] = "idle"
    /\ db' = FlushDb(db)
    /\ inBy' = <<>>
    /\ outBy' = <<>>
    /\ ret' = [ret EXCEPT ![p] = [op |-> "init", key |-> 0, res |-> PyNone]]
    /\ Begin(p)
    /\ UNCHANGED <<pc, cur, calls, overlap, rfn>>

----------------------------------------------------------------------------
(* Specifications.  No other Cache is created, so the database is never    *)
(* flushed after Init.                                                     *)

\* Spec: every caller calls store, the calls interleaving command by command.
Next ==
    \E p \in Procs :
        \/ \E x \in Scalars : StoreIncr(p, x)
        \/ StoreSet(p)
        \/ StoreSetFail(p)
        \/ StoreRpushIn(p)
        \/ StoreRpushOut(p)

Spec == Init /\ [][Next]_vars

\* SpecObs: one caller calls store, one call after the other, while a second
\* caller reads (get, get_str, get_int) and replays.
Writer == 1
Reader == 2

NextObs ==
    \/ \E x \in Scalars : StoreIncr(Writer, x)
    \/ StoreSet(Writer)
    \/ StoreSetFail(Writer)
    \/ StoreRpushIn(Writer)
    \/ StoreRpushOut(Writer)
    \/ \E i \in Ids : get(Reader, i)
    \/ \E i \in Ids : get_str(Reader, i)
    \/ \E i \in Ids : get_int(Reader, i)
    \/ ReplayNoop(Reader)
    \/ \E m \in Methods : ReplayExists(Reader, m)
    \/ ReplayGet(Reader)
    \/ ReplayLrangeIn(Reader)
    \/ ReplayLrangeOut(Reader)

SpecObs == Init /\ [][NextObs]_vars

\* SpecInit: the first caller calls store, the second reads and replays, and
\* either creates a Cache at any time between its calls, on the database
\* the Cache in use is connected to.
NextInit ==
    \/ \E x \in Scalars : StoreIncr(Writer, x)
    \/ StoreSet(Writer)
    \/ StoreSetFail(Writer)
    \/ StoreRpushIn(Writer)
    \/ StoreRpushOut(Writer)
    \/ \E i \in Ids : get(Reader, i)
    \/ \E m \in Methods : ReplayExists(Reader, m)
    \/ ReplayGet(Reader)
    \/ ReplayLrangeIn(Reader)
    \/ ReplayLrangeOut(Reader)
    \/ \E p \in {Writer, Reader} : CacheInit(p)

SpecInit == Init /\ [][NextInit]_vars

\* SpecMix: two callers call store, with one of two arguments, their calls
\* interleaving, and the second also reads and replays between its own
\* store calls.
MixScalars == {PyStr(<<102, 233>>), PyInt(-12)}

NextMix ==
    \/ \E p \in {Writer, Reader} :
          \/ \E x \in MixScalars : StoreIncr(p, x)
          \/ StoreSet(p)
          \/ StoreSetFail(p)
          \/ StoreRpushIn(p)
          \/ StoreRpushOut(p)
    \/ \E i \in Ids : get(Reader, i)
    \/ \E i \in Ids : get_str(Reader, i)
    \/ \E i \in Ids : get_int(Reader, i)
    \/ ReplayNoop(Reader)
    \/ \E m \in Methods : ReplayExists(Reader, m)
    \/ ReplayGet(Reader)
    \/ ReplayLrangeIn(Reader)
    \/ ReplayLrangeOut(Reader)

SpecMix == Init /\ [][NextMix]_vars

----------------------------------------------------------------------------
(* Properties                                                              *)

Range(f) == {f[i] : i \in 1..Len(f)}

AllIdle == \A p \in Procs : pc[p] = "idle"

\* The call counter of store as replay reads it: 0 when the key is absent.
CallCount == IF db.counter["Cache.store"] = Nil THEN 0 ELSE IntParse(db.counter["Cache.store"])

Inputs == db.inputs["Cache.store"]
Outputs == db.outputs["Cache.store"]

\* The text form of a scalar: the text itself, str() of a number, the
\* decoding of binary data.
TextOf(x) ==
    IF x.t = "str" THEN x.v
    ELSE IF x.t = "int" THEN IntStr(x.v)
    ELSE IF x.t = "float" THEN FloatRepr(x.v)
    ELSE UTF8Decode(x.v)

\* C1: after N store calls, none overlapping another and each successful,
\* the counter is N, both histories have length N, and their k-th entries are
\* str(args) and the returned identifier of the k-th call.
C1_SequentialHistory ==
    (~overlap /\ AllIdle /\ \A k \in 1..Len(calls) : calls[k].st = "ok") =>
        /\ CallCount = Len(calls)
        /\ Len(Inputs) = Len(calls)
        /\ Len(Outputs) = Len(calls)
        /\ \A k \in 1..Len(calls) :
              /\ Inputs[k] = UTF8Encode(StrArgs(calls[k].arg))
              /\ Outputs[k] = UTF8Encode(IdText(calls[k].id))

\* MaxCalls successful store calls, one after the other, with different arguments.
C1_Witness ==
    /\ ~overlap /\ AllIdle
    /\ Len(calls) = MaxCalls
    /\ \A k \in 1..Len(calls) : calls[k].st = "ok"
    /\ calls[1].arg # calls[2].arg

\* C2 as stated: whenever store(x) returned an identifier, get returns the
\* stored bytes of x, get_str the text form of x, and get_int returns x for
\* an integer x, whatever calls followed.
C2_RoundTripEveryScalar ==
    \A k \in 1..Len(calls) :
        calls[k].st = "ok" =>
            /\ CacheGet(db, calls[k].id, "get") = PyBytes(Encode(calls[k].arg))
            /\ CacheGet(db, calls[k].id, "get_str").t = "str"
            /\ CacheGet(db, calls[k].id, "get_str") = PyStr(TextOf(calls[k].arg))
            /\ calls[k].arg.t = "int" =>
                   CacheGet(db, calls[k].id, "get_int") = PyInt(calls[k].arg.v)

\* C2, amended: get_str returns the text form of x when x is text, a number,
\* or binary data that is valid UTF-8; for other binary data it raises
\* UnicodeDecodeError.  get and get_int are as stated.
C2_RoundTrip ==
    \A k \in 1..Len(calls) :
        calls[k].st = "ok" =>
            /\ CacheGet(db, calls[k].id, "get") = PyBytes(Encode(calls[k].arg))
            /\ IF calls[k].arg.t \in {"str", "int", "float"} \/ UTF8Valid(calls[k].arg.v)
               THEN CacheGet(db, calls[k].id, "get_str") = PyStr(TextOf(calls[k].arg))
               ELSE CacheGet(db, calls[k].id, "get_str") = PyErr("UnicodeDecodeError")
            /\ calls[k].arg.t = "int" =>
                   CacheGet(db, calls[k].id, "get_int") = PyInt(calls[k].arg.v)

\* The reader got text with a two-byte character back by get_str, after a
\* later store call, and the binary value b'\xff' is stored too.
C2_Witness ==
    /\ Len(calls) = MaxCalls
    /\ \A k \in 1..Len(calls) : calls[k].st = "ok"
    /\ calls[1].arg = PyStr(<<102, 233>>)
    /\ calls[2].arg = PyBytes(<<255>>)
    /\ ret[Reader] = [op |-> "get_str", key |-> calls[1].id, res |-> PyStr(<<102, 233>>)]

\* C3 as stated: in every store call the input history is appended before the
\* value is set, and the value is set before the output history is appended.
C3_InputsBeforeSet ==
    \A k \in 1..Len(calls) :
        /\ k \in Range(outBy) => calls[k].id # 0
        /\ calls[k].id # 0 => k \in Range(inBy)
        /\ k \in Range(inBy) => CallCount >= 1

\* C4 as stated: whenever no store call is in progress, the i-th input and
\* the i-th output were pushed by the same invocation.
C4_SameInvocation ==
    AllIdle => \A i \in 1..Min(Len(inBy), Len(outBy)) : inBy[i] = outBy[i]

\* C5: once all the store calls of concurrent callers have completed, none
\* having failed, the counter equals their number.
C5_CounterEqualsCalls ==
    (AllIdle /\ \A k \in 1..Len(calls) : calls[k].st = "ok") => CallCount = Len(calls)

\* MaxCalls store calls that overlapped have all completed.
C5_Witness ==
    /\ overlap /\ AllIdle
    /\ Len(calls) = MaxCalls
    /\ \A k \in 1..Len(calls) : calls[k].st = "ok"

\* C6 as stated: a store call whose set failed has been counted and has been
\* recorded in the history.
C6_FailedCallRecorded ==
    \A k \in 1..Len(calls) :
        calls[k].st = "failed" => (CallCount >= k /\ k \in Range(inBy))

\* C7: every entry of the output history is the identifier of a key that is
\* in the store, set by the invocation that pushed the entry; an invocation
\* whose set failed pushed no entry.
C7_OutputsAreStoredKeys ==
    /\ Len(outBy) = Len(Outputs)
    /\ \A i \in 1..Len(Outputs) :
          /\ calls[outBy[i]].id \in Ids
          /\ Outputs[i] = UTF8Encode(IdText(calls[outBy[i]].id))
          /\ Get(db, calls[outBy[i]].id) # Nil
    /\ \A k \in 1..Len(calls) : calls[k].st = "failed" => k \notin Range(outBy)

\* A store call failed in its set, and another has pushed its identifier.
C7_Witness ==
    /\ \E k \in 1..Len(calls) : calls[k].st = "failed"
    /\ Len(Outputs) >= 1

\* C8: for a key that is not in the store, get returns None and raises
\* nothing, get_str and get_int raise, and the store is left as it was.
C8_AbsentKey ==
    [][\A i \in Ids :
          Get(db, i) = Nil =>
              /\ get(Reader, i) => (ret'[Reader].res = PyNone /\ db' = db)
              /\ get_str(Reader, i) => (ret'[Reader].res.t = "error" /\ db' = db)
              /\ get_int(Reader, i) => (ret'[Reader].res.t = "error" /\ db' = db)]_vars

\* get_str was called for a key that is not in the store, which holds a value.
C8_Witness ==
    /\ ret[Reader].op = "get_str"
    /\ Get(db, ret[Reader].key) = Nil
    /\ ret[Reader].res = PyErr("AttributeError")
    /\ \E i \in Ids : Get(db, i) # Nil

\* A replay call of the reader has returned after printing.
Replayed == pc[Reader] = "idle" /\ ret[Reader].op = "replay" /\ out[Reader] # <<>>

\* C9: replay prints, after the header, min(len(inputs), len(outputs)) lines
\* for the histories it read, the i-th pairing the i-th input with the i-th
\* output, and it raises nothing when the lengths differ.
C9_PairLines ==
    Replayed =>
        /\ ret[Reader].res = PyNone
        /\ Len(out[Reader]) = 1 + Min(Len(rins[Reader]), Len(routs[Reader]))
        /\ \A i \in 1..Min(Len(rins[Reader]), Len(routs[Reader])) :
              out[Reader][i + 1] = PairLine(rfn[Reader], rins[Reader][i], routs[Reader][i])

\* replay read two inputs and one output, and printed one pair line.
C9_Witness ==
    /\ Replayed
    /\ Len(rins[Reader]) = 2
    /\ Len(routs[Reader]) = 1
    /\ Len(out[Reader]) = 2

\* The number of times method m has been called: only store is counted.
Called(m) == IF m = "Cache.store" THEN Len(calls) ELSE 0

\* C10: the header replay prints shows the number of calls counted so far, 0
\* when the counter key is absent; for a method called 0 times replay prints
\* the header with 0 and nothing else.
C10_Header ==
    [][/\ (pc[Reader] \in {"idle", "replay_get"} /\ pc'[Reader] = "replay_lrange_in") =>
              out'[Reader] = <<HeaderLine(rfn'[Reader], Called(rfn'[Reader]))>>
       /\ (pc[Reader] = "replay_lrange_out" /\ pc'[Reader] = "idle"
              /\ Called(rfn[Reader]) = 0) =>
              out'[Reader] = <<HeaderLine(rfn[Reader], 0)>>]_vars

\* replay of store printed a header that shows MaxCalls calls.
C10_Witness ==
    /\ Replayed
    /\ rfn[Reader] = "Cache.store"
    /\ out[Reader][1] = HeaderLine("Cache.store", MaxCalls)

\* C11: creating a Cache leaves the counter absent (read as 0), both
\* histories empty and no value retrievable, whatever an earlier Cache wrote.
C11_InitClears ==
    [][(\E p \in {Writer, Reader} : CacheInit(p)) =>
          /\ Exists(db', "Cache.store") = 0
          /\ db'.inputs["Cache.store"] = <<>>
          /\ db'.outputs["Cache.store"] = <<>>
          /\ \A i \in Ids : CacheGet(db', i, "get") = PyNone]_vars

\* A Cache was created after a store call on an earlier Cache had set a
\* value, counted the call and recorded it; nothing of it is left.
C11_Witness ==
    /\ ret[Reader].op = "init"
    /\ \E k \in 1..Len(calls) : calls[k].st = "ok"
    /\ CallCount = 0
    /\ Inputs = <<>>
    /\ Outputs = <<>>
    /\ \A i \in Ids : Get(db, i) = Nil

IsPrefix(s, t) == Len(s) <= Len(t) /\ SubSeq(t, 1, Len(s)) = s

\* C13: every step of store, get, get_str, get_int and replay leaves each
\* history with the history before the step as a prefix, also when store
\* calls interleave.
C13_AppendOnly ==
    [][/\ IsPrefix(db.inputs["Cache.store"], db'.inputs["Cache.store"])
       /\ IsPrefix(db.outputs["Cache.store"], db'.outputs["Cache.store"])]_vars

\* Two store calls that overlapped have both pushed their input, and the
\* reader has replayed since.
C13_Witness ==
    /\ overlap
    /\ Len(Inputs) = 2
    /\ Inputs[1] # Inputs[2]
    /\ Len(Outputs) >= 1
    /\ ret[Reader].op = "replay"

\* The store calls that are in progress or have failed.
Unfinished == {k \in 1..Len(calls) : calls[k].st \in {"running", "failed"}}

\* C14: in every state, also in the middle of calls, the counter is at least
\* the length of the input history, which is at least the length of the
\* output history, and the counter exceeds the output history by no more
\* than the number of store calls in progress or failed.
C14_CounterBoundsHistories ==
    /\ CallCount >= Len(Inputs)
    /\ Len(Inputs) >= Len(Outputs)
    /\ CallCount - Len(Outputs) <= Cardinality(Unfinished)

\* One store call has failed and another has pushed its input and not yet
\* its output.
C14_Witness ==
    /\ \E k \in 1..Len(calls) : calls[k].st = "failed"
    /\ \E p \in Procs : pc[p] = "store_rpush_out"
    /\ CallCount > Len(Inputs)
    /\ Len(Inputs) > Len(Outputs)

\* A step of get, get_str, get_int or replay of the reader.
ReaderStep ==
    \/ \E i \in Ids : get(Reader, i) \/ get_str(Reader, i) \/ get_int(Reader, i)
    \/ ReplayNoop(Reader)
    \/ \E m \in Methods : ReplayExists(Reader, m)
    \/ ReplayGet(Reader)
    \/ ReplayLrangeIn(Reader)
    \/ ReplayLrangeOut(Reader)

\* C15: a step of get, get_str, get_int or replay, returning or raising,
\* leaves every counter, both histories and every stored value as they
\* were; no counter and no history of get comes into being.
C15_ReadOnly ==
    [][ReaderStep =>
          /\ db'.counter = db.counter
          /\ db'.inputs = db.inputs
          /\ db'.outputs = db.outputs
          /\ db'.vals = db.vals
          /\ Exists(db', "Cache.get") = 0
          /\ db'.inputs["Cache.get"] = <<>>
          /\ db'.outputs["Cache.get"] = <<>>]_vars

\* get_int raised ValueError for a stored value, with a call counted and
\* recorded.
C15_Witness ==
    /\ ret[Reader].op = "get_int"
    /\ ret[Reader].res = PyErr("ValueError")
    /\ CallCount >= 1
    /\ Len(Outputs) >= 1

====
